---- MODULE Spec2Model ----
(***************************************************************************)
(* Model of the `status` crate: the Status error container, its Source     *)
(* slot (Public / Private / Empty), the Kind and Context contracts, the    *)
(* Chain iterator and the InternalStatus view.                             *)
(*                                                                         *)
(* Text is modelled as a sequence of string tokens; the token NL is the    *)
(* line terminator written by writeln!.                                    *)
(***************************************************************************)
EXTENDS Integers, Sequences, FiniteSets, TLC

VARIABLES status, internal, chain, yielded, ret, calls, last

vars == <<status, internal, chain, yielded, ret, calls, last>>

(***************************************************************************)
(* Bounds of the model.                                                    *)
(***************************************************************************)
\* Nesting depth of the errors handed to with_source / with_internal.
MaxDepth == 2
\* Number of next() calls made on a Chain after it returned None.
MaxExtraNext == 2

(***************************************************************************)
(* Option<T>                                                               *)
(***************************************************************************)
None == [some |-> FALSE]
Some(v) == [some |-> TRUE, val |-> v]

(***************************************************************************)
(* Text.                                                                   *)
(***************************************************************************)
NL == "\n"
\* writeln!(f, "{}", x)
writeln(text) == text \o <<NL>>

(***************************************************************************)
(* Kind (kind.rs).                                                         *)
(***************************************************************************)
\* The enum used in the crate's examples.
ErrorKind == {[type |-> "ErrorKind", variant |-> "Read"],
              [type |-> "ErrorKind", variant |-> "Parse"]}

\* derive_more::Display of the example enum.
ErrorKind_fmt(k) ==
    IF k.variant = "Read" THEN <<"Failed to read file">> ELSE <<"Failed to parse">>

\* impl From<&'static str> for Unkind
Unkind_from(s) == [type |-> "Unkind", inner |-> s]

\* impl fmt::Display for Unkind
Unkind_fmt(k) == writeln(<<k.inner>>)

\* The string literals handed to Status::new for an Unkind.
Literals == {[type |-> "str", val |-> "Died"]}

\* U: Into<K>
Into(u) == IF u.type = "str" THEN Unkind_from(u.val) ELSE u

\* Display of a Kind, dispatched on the concrete type.
Kind_fmt(k) == IF k.type = "Unkind" THEN Unkind_fmt(k) ELSE ErrorKind_fmt(k)

(***************************************************************************)
(* Context (context.rs).                                                   *)
(***************************************************************************)
Keys == {"a", "b"}
Values == {"1", "2"}

NoContext == [type |-> "NoContext"]

\* Mutant: an existing key is removed and the entry is pushed last.
RECURSIVE IndexMap_insert_moves_last(_, _, _)
IndexMap_insert_moves_last(data, key, value) ==
    IF data = <<>> THEN <<[key |-> key, value |-> value]>>
    ELSE IF Head(data).key = key
         THEN Tail(data) \o <<[key |-> key, value |-> value]>>
         ELSE <<Head(data)>> \o IndexMap_insert_moves_last(Tail(data), key, value)

\* indexmap::IndexMap::insert on the ordered entries.
RECURSIVE IndexMap_insert(_, _, _)
IndexMap_insert(data, key, value) ==
    IF data = <<>> THEN <<[key |-> key, value |-> value]>>
    ELSE IF Head(data).key = key
         THEN <<[key |-> key, value |-> value]>> \o Tail(data)
         ELSE <<Head(data)>> \o IndexMap_insert(Tail(data), key, value)

\* indexmap::IndexMap::extend: insert every entry in order.
RECURSIVE IndexMap_extend(_, _)
IndexMap_extend(data, other) ==
    IF other = <<>> THEN data
    ELSE IndexMap_extend(IndexMap_insert(data, Head(other).key, Head(other).value),
                         Tail(other))

\* AdhocContext::new / Default
AdhocContext_new == [type |-> "AdhocContext", data |-> <<>>]

AdhocContext_insert(c, key, value) ==
    [c EXCEPT !.data = IndexMap_insert(c.data, key, value)]

\* impl fmt::Display for AdhocContext
RECURSIVE AdhocContext_fmt_entries(_)
AdhocContext_fmt_entries(data) ==
    IF data = <<>> THEN <<>>
    ELSE writeln(<<Head(data).key, ": ", Head(data).value>>)
         \o AdhocContext_fmt_entries(Tail(data))

AdhocContext_fmt(c) == AdhocContext_fmt_entries(c.data)

\* Mutant: the replacements take the place of the entries instead of
\* extending them.
AdhocContext_update_replaces(c, replacements) ==
    [c EXCEPT !.data = replacements.data]

AdhocContext_update(c, replacements) ==
    [c EXCEPT !.data = IndexMap_extend(c.data, replacements.data)]

AdhocContext_is_empty(c) == c.data = <<>>

\* impl fmt::Display for NoContext
NoContext_fmt(c) == <<>>

NoContext_update(c, replacements) == c

NoContext_is_empty(c) == TRUE

\* The Context trait, dispatched on the concrete type C.
Default(C) == IF C = "NoContext" THEN NoContext ELSE AdhocContext_new

Context_fmt(c) ==
    IF c.type = "NoContext" THEN NoContext_fmt(c) ELSE AdhocContext_fmt(c)

update(c, replacements) ==
    IF c.type = "NoContext" THEN NoContext_update(c, replacements)
    ELSE AdhocContext_update(c, replacements)

is_empty(c) ==
    IF c.type = "NoContext" THEN NoContext_is_empty(c) ELSE AdhocContext_is_empty(c)

ContextTypes == {"NoContext", "AdhocContext"}

\* The closures F: Fn(C) -> C handed to context_with.
Closures(C) ==
    IF C = "NoContext"
    THEN {[fn |-> "id"], [fn |-> "update", arg |-> NoContext]}
    ELSE {[fn |-> "insert", key |-> k, value |-> v] : k \in Keys, v \in Values}
         \cup {[fn |-> "update",
                arg |-> AdhocContext_insert(AdhocContext_insert(AdhocContext_new, "b", "2"),
                                            "a", "1")],
               [fn |-> "update", arg |-> AdhocContext_insert(AdhocContext_new, "b", "1")],
               [fn |-> "update", arg |-> AdhocContext_new],
               [fn |-> "default"]}

Apply(f, c) ==
    CASE f.fn = "id" -> c
      [] f.fn = "insert" -> AdhocContext_insert(c, f.key, f.value)
      [] f.fn = "update" -> update(c, f.arg)
      [] f.fn = "default" -> Default(c.type)

(***************************************************************************)
(* Source (status.rs).                                                     *)
(***************************************************************************)
Empty == [tag |-> "Empty"]
Public(e) == [tag |-> "Public", err |-> e]
Private(e) == [tag |-> "Private", err |-> e]

\* Mutant: the public accessor also hands out a Private cause.
Source_public_any(source) ==
    IF source.tag \in {"Public", "Private"} THEN Some(source.err) ELSE None

Source_public(source) ==
    IF source.tag = "Public" THEN Some(source.err) ELSE None

Source_any(source) ==
    IF source.tag \in {"Public", "Private"} THEN Some(source.err) ELSE None

(***************************************************************************)
(* Status (status.rs).                                                     *)
(***************************************************************************)
\* Mutant: the context is not built from the Default of the Status' own
\* Context type.
Status_new_wrong_context(u, C) ==
    [type |-> "Status", kind |-> Into(u), source |-> Empty,
     data |-> Default("AdhocContext")]

Status_new(u, C) ==
    [type |-> "Status", kind |-> Into(u), source |-> Empty, data |-> Default(C)]

\* Mutant: the cause is stored with the wrong visibility.
Status_with_source_private(self, error) == [self EXCEPT !.source = Private(error)]

\* Mutant: the Status is rebuilt around the cause and loses its context.
Status_with_source_resets_context(self, error) ==
    [self EXCEPT !.source = Public(error), !.data = Default(self.data.type)]

Status_with_source(self, error) == [self EXCEPT !.source = Public(error)]

\* Mutant: a cause already attached is kept.
Status_with_internal_keep_first(self, error) ==
    IF self.source.tag = "Empty" THEN [self EXCEPT !.source = Private(error)] ELSE self

Status_with_internal(self, error) == [self EXCEPT !.source = Private(error)]

\* std::mem::swap on a pair of places.
swap(pair) == <<pair[2], pair[1]>>

\* Mutant: the Status is rebuilt around the new context and loses its cause.
Status_context_with_clears_source(self, context) ==
    [self EXCEPT !.data = Apply(context, self.data), !.source = Empty]

\* Mutant: the closure is applied to the default context left by the swap.
Status_context_with_on_default(self, context) ==
    LET s1 == swap(<<Default(self.data.type), self.data>>)
        data == Apply(context, s1[2])
        s2 == swap(<<data, s1[2]>>)
    IN [self EXCEPT !.data = s2[2]]

Status_context_with(self, context) ==
    LET s1 == swap(<<Default(self.data.type), self.data>>)
        data == Apply(context, s1[1])
        s2 == swap(<<data, s1[2]>>)
    IN [self EXCEPT !.data = s2[2]]

Status_context(self) == self.data

Status_kind(self) == self.kind

\* Mutant: the context block is written without the is_empty test.
Status_fmt_always_context(self) ==
    writeln(Kind_fmt(self.kind)) \o writeln(<<>>) \o writeln(Context_fmt(self.data))

\* Mutant: the public cause is written after the context block.
Status_fmt_with_source(self) ==
    writeln(Kind_fmt(self.kind))
    \o (IF ~is_empty(self.data)
        THEN writeln(<<>>) \o writeln(Context_fmt(self.data))
        ELSE <<>>)
    \o (IF self.source.tag = "Public"
        THEN writeln(<<"Caused by: ", self.source.err.type>>)
        ELSE <<>>)

\* impl fmt::Display for Status
Status_fmt(self) ==
    writeln(Kind_fmt(self.kind))
    \o (IF ~is_empty(self.data)
        THEN writeln(<<>>) \o writeln(Context_fmt(self.data))
        ELSE <<>>)

\* impl error::Error for Status
Status_source(self) == Source_public(self.source)

\* DerefMut: the context is written in place.
Status_deref_mut(self, f) == [self EXCEPT !.data = Apply(f, self.data)]

(***************************************************************************)
(* InternalStatus (internal.rs).                                           *)
(***************************************************************************)
InternalStatus_new(err) == [type |-> "InternalStatus", status |-> err]

Status_into_internal(self) == InternalStatus_new(self)

\* impl fmt::Display for InternalStatus
InternalStatus_fmt(self) == writeln(Status_fmt(self.status))

\* impl error::Error for InternalStatus
InternalStatus_source(self) == Source_any(self.status.source)

(***************************************************************************)
(* Errors other than Status: a leaf error such as std::io::Error, and an   *)
(* error of another crate that declares a cause of its own.                *)
(***************************************************************************)
IoError(msg) == [type |-> "Plain", msg |-> msg, source |-> None]
Wrapped(msg, e) == [type |-> "Plain", msg |-> msg, source |-> Some(e)]

\* dyn Error::source
Error_source(e) ==
    CASE e.type = "Status" -> Status_source(e)
      [] e.type = "InternalStatus" -> InternalStatus_source(e)
      [] OTHER -> e.source

\* dyn Display
Error_fmt(e) ==
    CASE e.type = "Status" -> Status_fmt(e)
      [] e.type = "InternalStatus" -> InternalStatus_fmt(e)
      [] OTHER -> <<e.msg>>

\* The errors a caller attaches as a cause, by nesting depth.
RECURSIVE Errors(_)
Errors(d) ==
    IF d = 0 THEN {}
    ELSE IF d = 1
    THEN {IoError("No such file"),
          Status_new([type |-> "str", val |-> "inner"], "AdhocContext")}
    ELSE LET E == Errors(d - 1)
             outer == Status_new([type |-> "ErrorKind", variant |-> "Parse"], "AdhocContext")
         IN E \cup {Wrapped("wrapped", e) : e \in E}
              \cup {Status_with_source(outer, e) : e \in E}
              \cup {Status_with_internal(outer, e) : e \in E}

(***************************************************************************)
(* Chain (chain.rs).                                                       *)
(***************************************************************************)
Chain_new(next) == [next |-> next]

\* Chain::next: the item returned and the iterator afterwards.
Chain_next_item(self) == self.next

\* Mutant: the iterator does not follow the source() of the item it returns.
Chain_next_self_no_follow(self) == [self EXCEPT !.next = None]

Chain_next_self(self) ==
    IF ~self.next.some THEN [self EXCEPT !.next = None]
    ELSE [self EXCEPT !.next = Error_source(self.next.val)]

\* Iterator::last: consume the iterator, keeping the last item.
RECURSIVE Iterator_last(_, _)
Iterator_last(self, acc) ==
    IF ~Chain_next_item(self).some THEN acc
    ELSE Iterator_last(Chain_next_self(self), Chain_next_item(self))

Status_sources(self) == Chain_new(Status_source(self))

\* Mutant: the first element of sources() instead of the last.
Status_root_source_first(self) == Chain_next_item(Status_sources(self))

Status_root_source(self) == Iterator_last(Status_sources(self), None)

InternalStatus_sources(self) == Chain_new(InternalStatus_source(self))

\* InternalAlarm::sources and InternalAlarm::root_source (alarm.rs): the
\* chain accessors of the internal view of the crate's earlier Alarm type,
\* which has the same kind / source / data fields as Status.
\* Mutant: the internal view walks the public chain only.
InternalAlarm_sources_public(self) == Chain_new(Source_public(self.status.source))

InternalAlarm_sources(self) == Chain_new(Source_any(self.status.source))

InternalAlarm_root_source(self) == Iterator_last(InternalAlarm_sources(self), None)

(***************************************************************************)
(* ResultStatusExt (ext.rs).                                               *)
(***************************************************************************)
Ok(v) == [type |-> "Ok", val |-> v]
Err(e) == [type |-> "Err", val |-> e]

\* The values T of a Result<T, Status<K, C>>.
OkValues == {[content |-> "[package]"]}

\* Status::into_err
Status_into_err(self) == Err(self)

\* Mutant: the closure is dropped and the Result handed back as it is.
Result_context_with_drops_closure(self, replacements) == self

\* impl ResultStatusExt for Result<T, Status<K, C>>: map_err applies the
\* closure to an Err and leaves an Ok alone.
Result_context_with(self, replacements) ==
    IF self.type = "Err" THEN Err(Status_context_with(self.val, replacements))
    ELSE self

(***************************************************************************)
(* TerminatingAlarm (term.rs).                                             *)
(***************************************************************************)
\* impl From<E> for TerminatingAlarm<E>
TerminatingAlarm_from(error) == [type |-> "TerminatingAlarm", error |-> error]

\* The loop of the Debug impl over the Chain.
RECURSIVE TerminatingAlarm_fmt_sources(_)
TerminatingAlarm_fmt_sources(sources) ==
    IF ~Chain_next_item(sources).some THEN <<>>
    ELSE writeln(<<>>)
         \o writeln(<<"Caused by: ">> \o Error_fmt(Chain_next_item(sources).val))
         \o TerminatingAlarm_fmt_sources(Chain_next_self(sources))

\* Mutant: only the error's own cause is written, the chain is not walked.
TerminatingAlarm_fmt_first_only(self) ==
    writeln(Error_fmt(self.error))
    \o (IF Error_source(self.error).some
        THEN writeln(<<>>)
             \o writeln(<<"Caused by: ">> \o Error_fmt(Error_source(self.error).val))
        ELSE <<>>)

\* impl fmt::Debug for TerminatingAlarm
TerminatingAlarm_fmt(self) ==
    writeln(Error_fmt(self.error))
    \o TerminatingAlarm_fmt_sources(Chain_new(Error_source(self.error)))

(***************************************************************************)
(* The program: a caller that builds a Status, attaches causes, extends    *)
(* the context, reads it, converts it into the internal view and walks     *)
(* its chain of sources.                                                   *)
(*   status   - the Status the caller holds (the value moved into the      *)
(*              view once into_internal was called)                        *)
(*   internal - the InternalStatus, once into_internal was called          *)
(*   chain    - the live Chain iterator, if any                            *)
(*   yielded  - the items the live Chain returned so far                   *)
(*   ret      - what the last Chain::next returned                         *)
(*   calls    - the number of Chain::next calls that returned None         *)
(*   last     - the last operation on the Status, its inputs and result    *)
(***************************************************************************)
NewArgs == Literals \cup {[type |-> "ErrorKind", variant |-> "Read"]}

Init ==
    \E u \in NewArgs, C \in ContextTypes :
        /\ status = Status_new(u, C)
        /\ last = [op |-> "new", arg |-> u, C |-> C]
        /\ internal = None
        /\ chain = None
        /\ yielded = <<>>
        /\ ret = None
        /\ calls = 0

\* Status::new
New(u, C) ==
    /\ chain = None
    /\ status' = Status_new(u, C)
    /\ internal' = None
    /\ last' = [op |-> "new", arg |-> u, C |-> C]
    /\ UNCHANGED <<chain, yielded, ret, calls>>

\* Status::with_source
WithSource(e) ==
    /\ chain = None
    /\ ~internal.some
    /\ status' = Status_with_source(status, e)
    /\ last' = [op |-> "with_source", arg |-> e, before |-> status.source.tag]
    /\ UNCHANGED <<internal, chain, yielded, ret, calls>>

\* Status::with_internal
WithInternal(e) ==
    /\ chain = None
    /\ ~internal.some
    /\ status' = Status_with_internal(status, e)
    /\ last' = [op |-> "with_internal", arg |-> e, before |-> status.source.tag]
    /\ UNCHANGED <<internal, chain, yielded, ret, calls>>

\* Status::context_with
ContextWith(f) ==
    /\ chain = None
    /\ ~internal.some
    /\ status' = Status_context_with(status, f)
    /\ last' = [op |-> "context_with", arg |-> f, before |-> status.data]
    /\ UNCHANGED <<internal, chain, yielded, ret, calls>>

\* A write to the context through DerefMut.
DerefMut(f) ==
    /\ chain = None
    /\ ~internal.some
    /\ status' = Status_deref_mut(status, f)
    /\ last' = [op |-> "deref_mut", arg |-> f, before |-> status.data]
    /\ UNCHANGED <<internal, chain, yielded, ret, calls>>

\* Status::into_internal
IntoInternal ==
    /\ chain = None
    /\ ~internal.some
    /\ internal' = Some(Status_into_internal(status))
    /\ last' = [op |-> "into_internal"]
    /\ UNCHANGED <<status, chain, yielded, ret, calls>>

\* Status::kind
Kind ==
    /\ chain = None
    /\ ~internal.some
    /\ last' = [op |-> "kind", ret |-> Status_kind(status)]
    /\ UNCHANGED <<status, internal, chain, yielded, ret, calls>>

\* Status::context
Context ==
    /\ chain = None
    /\ ~internal.some
    /\ last' = [op |-> "context", ret |-> Status_context(status)]
    /\ UNCHANGED <<status, internal, chain, yielded, ret, calls>>

\* Display of the Status, or of the InternalStatus once converted.
Display ==
    /\ chain = None
    /\ last' = [op |-> "fmt",
                ret |-> IF internal.some THEN InternalStatus_fmt(internal.val)
                        ELSE Status_fmt(status)]
    /\ UNCHANGED <<status, internal, chain, yielded, ret, calls>>

\* Error::source of the Status, or of the InternalStatus once converted.
ErrorSource ==
    /\ chain = None
    /\ last' = [op |-> "source",
                ret |-> IF internal.some THEN InternalStatus_source(internal.val)
                        ELSE Status_source(status)]
    /\ UNCHANGED <<status, internal, chain, yielded, ret, calls>>

\* root_source of the Status, or of the internal view once converted.
RootSource ==
    /\ chain = None
    /\ last' = [op |-> "root_source",
                ret |-> IF internal.some THEN InternalAlarm_root_source(internal.val)
                        ELSE Status_root_source(status)]
    /\ UNCHANGED <<status, internal, chain, yielded, ret, calls>>

\* ResultStatusExt::context_with on Err(status).
ErrContextWith(f) ==
    /\ chain = None
    /\ ~internal.some
    /\ LET result == Result_context_with(Status_into_err(status), f)
       IN /\ status' = result.val
          /\ last' = [op |-> "result_context_with", on |-> "Err", arg |-> f,
                      before |-> status.data, ret |-> result]
    /\ UNCHANGED <<internal, chain, yielded, ret, calls>>

\* ResultStatusExt::context_with on an Ok(v) of the same Result type.
OkContextWith(v, f) ==
    /\ chain = None
    /\ ~internal.some
    /\ last' = [op |-> "result_context_with", on |-> "Ok", arg |-> f,
                value |-> v, ret |-> Result_context_with(Ok(v), f)]
    /\ UNCHANGED <<status, internal, chain, yielded, ret, calls>>

\* The Debug output of the terminating wrapper around the Status, or around
\* the InternalStatus once converted.
TermDebug ==
    /\ chain = None
    /\ last' = [op |-> "term_debug",
                ret |-> TerminatingAlarm_fmt(TerminatingAlarm_from(
                            IF internal.some THEN internal.val ELSE status))]
    /\ UNCHANGED <<status, internal, chain, yielded, ret, calls>>

\* sources() of the Status, or of the InternalStatus once converted: the
\* Chain borrows the value until it is dropped.
Sources ==
    /\ chain = None
    /\ chain' = Some(IF internal.some THEN InternalStatus_sources(internal.val)
                     ELSE Status_sources(status))
    /\ yielded' = <<>>
    /\ ret' = None
    /\ calls' = 0
    /\ last' = [op |-> "sources"]
    /\ UNCHANGED <<status, internal>>

\* Chain::next
ChainNext ==
    /\ chain.some
    /\ calls <= MaxExtraNext
    /\ LET item == Chain_next_item(chain.val)
       IN /\ ret' = Some(item)
          /\ chain' = Some(Chain_next_self(chain.val))
          /\ yielded' = IF item.some THEN Append(yielded, item.val) ELSE yielded
          /\ calls' = IF item.some THEN calls ELSE calls + 1
    /\ UNCHANGED <<status, internal, last>>

\* The Chain goes out of scope.
ChainDrop ==
    /\ chain.some
    /\ chain' = None
    /\ yielded' = <<>>
    /\ ret' = None
    /\ calls' = 0
    /\ UNCHANGED <<status, internal, last>>

Next ==
    \/ \E u \in NewArgs, C \in ContextTypes : New(u, C)
    \/ \E e \in Errors(MaxDepth) : WithSource(e)
    \/ \E e \in Errors(MaxDepth) : WithInternal(e)
    \/ \E f \in Closures(status.data.type) : ContextWith(f)
    \/ \E f \in Closures(status.data.type) : DerefMut(f)
    \/ \E f \in Closures(status.data.type) : ErrContextWith(f)
    \/ \E v \in OkValues, f \in Closures(status.data.type) : OkContextWith(v, f)
    \/ IntoInternal
    \/ Kind
    \/ Context
    \/ Display
    \/ ErrorSource
    \/ RootSource
    \/ TermDebug
    \/ Sources
    \/ ChainNext
    \/ ChainDrop

Spec == Init /\ [][Next]_vars

(***************************************************************************)
(* Helpers of the properties.                                              *)
(***************************************************************************)
\* The errors met by following source() links from an optional cause, from
\* the outermost to the deepest.
RECURSIVE Causes(_)
Causes(cause) ==
    IF ~cause.some THEN <<>>
    ELSE <<cause.val>> \o Causes(Error_source(cause.val))

Range(seq) == {seq[i] : i \in 1..Len(seq)}

\* The last element of a sequence, as an Option.
LastOf(seq) == IF seq = <<>> THEN None ELSE Some(seq[Len(seq)])

\* C1: for every kind k, Status::new(k) has kind() = k, the default (empty)
\* context and an Empty source; sources().next() and root_source() are None
\* on the Status and on its internal view.
C1_NewIsInitial ==
    last.op = "new" =>
        /\ Status_kind(status) = Into(last.arg)
        /\ Status_context(status) = Default(last.C)
        /\ is_empty(Status_context(status))
        /\ status.source = Empty
        /\ Chain_next_item(Status_sources(status)) = None
        /\ Status_root_source(status) = None
        /\ Chain_next_item(InternalStatus_sources(Status_into_internal(status))) = None
        /\ InternalAlarm_root_source(Status_into_internal(status)) = None

C1_Witness == last.op = "new" /\ status.kind.type = "Unkind" /\ ~internal.some

\* C2: after with_source(e), whatever the Source was before, Error::source
\* of the Status is e and e is the first element of sources().
C2_WithSourceIsPublic ==
    /\ last.op = "with_source" =>
           /\ Status_source(status) = Some(last.arg)
           /\ Chain_next_item(Status_sources(status)) = Some(last.arg)
    /\ (chain.some /\ ~internal.some /\ status.source.tag = "Public" /\ ret.some) =>
           /\ yielded # <<>>
           /\ yielded[1] = status.source.err

C2_Witness ==
    /\ last.op = "with_source"
    /\ last.before = "Private"
    /\ status.source = Public(last.arg)

\* C3: after with_internal(e) the cause is invisible to the public chain
\* (Error::source of the Status is None, sources() yields nothing) while
\* the first element of into_internal().sources() is e.
C3_WithInternalIsPrivate ==
    /\ last.op = "with_internal" =>
           /\ Status_source(status) = None
           /\ Chain_next_item(Status_sources(status)) = None
           /\ Chain_next_item(InternalStatus_sources(Status_into_internal(status)))
                  = Some(last.arg)
    /\ (chain.some /\ status.source.tag = "Private" /\ ret.some) =>
           IF internal.some
           THEN yielded # <<>> /\ yielded[1] = status.source.err
           ELSE yielded = <<>> /\ ret = Some(None)

C3_Witness ==
    /\ internal.some
    /\ status.source.tag = "Private"
    /\ Len(yielded) = 1
    /\ yielded[1] = status.source.err

\* C4: the last attach wins.  After a with_source / with_internal step the
\* Source holds exactly the error and the visibility of that call, the
\* internal view reaches that error and its own causes and nothing else,
\* and the cause held before the step is reachable through neither the
\* Status nor the internal view (unless the new error carries an equal one).
C4_LastAttachWins ==
    [][ last'.op \in {"with_source", "with_internal"} =>
          LET e == last'.arg
              own == <<e>> \o Causes(Error_source(e))
              pub == Causes(Status_source(status'))
              all == Causes(InternalStatus_source(Status_into_internal(status')))
          IN /\ status'.source
                    = (IF last'.op = "with_source" THEN Public(e) ELSE Private(e))
             /\ all = own
             /\ pub = (IF last'.op = "with_source" THEN own ELSE <<>>)
             /\ last'.before = status.source.tag
             /\ (status.source.tag # "Empty" /\ status.source.err \notin Range(own))
                    => status.source.err \notin (Range(pub) \cup Range(all))
      ]_vars

C4_Witness ==
    /\ last.op = "with_internal"
    /\ last.before = "Public"
    /\ status.source = Private(last.arg)

\* The Source values a Status can hold.
Sources_all ==
    {Empty} \cup {Public(e) : e \in Errors(MaxDepth)}
            \cup {Private(e) : e \in Errors(MaxDepth)}

\* C5: Display of a Status is the Kind's display line, followed, if and only
\* if the Context is non-empty, by a blank line and the Context's display
\* output (written as a line); with an empty Context it is the Kind's line
\* alone.
C5_DisplayKindThenContext ==
    (last.op = "fmt" /\ ~internal.some) =>
        LET out == last.ret
            kindLine == Kind_fmt(Status_kind(status)) \o <<NL>>
            n == Len(kindLine)
            ctx == Context_fmt(Status_context(status))
        IN /\ Len(out) >= n
           /\ SubSeq(out, 1, n) = kindLine
           /\ is_empty(Status_context(status)) <=> out = kindLine
           /\ (status.data.type = "AdhocContext" /\ status.data.data # <<>>)
                  <=> Len(out) > n
           /\ Len(out) > n =>
                  /\ out[n + 1] = NL
                  /\ ctx # <<>>
                  /\ SubSeq(out, n + 2, Len(out)) = ctx \o <<NL>>

C5_Witness ==
    /\ last.op = "fmt"
    /\ ~internal.some
    /\ status.data.type = "AdhocContext"
    /\ Len(status.data.data) = 2
    /\ last.ret[Len(Kind_fmt(status.kind)) + 2] = NL

\* C6: Display never shows the wrapped cause.  The Display output of the
\* Status (of the InternalStatus) equals that of every Status (every
\* InternalStatus) with the same kind and the same context, whatever Source
\* that one holds.
C6_DisplayHidesSource ==
    last.op = "fmt" =>
        \A src \in Sources_all :
            LET twin == [type |-> "Status", kind |-> status.kind,
                         source |-> src, data |-> status.data]
            IN last.ret = (IF internal.some
                           THEN InternalStatus_fmt(Status_into_internal(twin))
                           ELSE Status_fmt(twin))

C6_Witness ==
    /\ last.op = "fmt"
    /\ status.source.tag = "Private"
    /\ status.source.err.type = "Status"
    /\ ~is_empty(status.data)

\* C7: the Display output of s.into_internal() equals the Display output
\* of s, token for token.
C7_InternalDisplayEqualsStatusDisplay ==
    (last.op = "fmt" /\ internal.some) => last.ret = Status_fmt(status)

\* C8: a Chain seeded at a cause whose chain of source() links has depth N
\* yields exactly those N errors, outermost first, and then stops for good:
\* once next() returned None every later next() returns None and yields
\* nothing; a Chain seeded with None yields nothing.
C8_ChainTermination ==
    chain.some =>
        LET seed == IF internal.some THEN InternalStatus_source(internal.val)
                    ELSE Status_source(status)
            expected == Causes(seed)
            N == Len(expected)
        IN /\ Len(yielded) <= N
           /\ yielded = SubSeq(expected, 1, Len(yielded))
           /\ chain.val.next = (IF Len(yielded) < N
                                THEN Some(expected[Len(yielded) + 1]) ELSE None)
           /\ (ret.some /\ ret.val.some) =>
                  /\ calls = 0
                  /\ ret.val = LastOf(yielded)
           /\ calls >= 1 =>
                  /\ ret = Some(None)
                  /\ yielded = expected
                  /\ chain.val.next = None
           /\ (ret.some /\ Len(yielded) < N) => ret.val.some
           /\ ~seed.some => yielded = <<>>

C8_Witness ==
    /\ chain.some
    /\ Len(yielded) = 2
    /\ calls = MaxExtraNext + 1
    /\ ret = Some(None)

\* C9: Status::root_source() is the last element of Status::sources(), the
\* deepest public cause, and None when there is no public cause: when the
\* Source is Empty and when the only cause is Private.
C9_RootSourceIsLastPublic ==
    /\ (last.op = "root_source" /\ ~internal.some) =>
           /\ last.ret = LastOf(Causes(Source_public(status.source)))
           /\ status.source.tag \in {"Empty", "Private"} => last.ret = None
           /\ status.source.tag = "Public" => last.ret.some
    /\ (chain.some /\ ~internal.some /\ calls >= 1) =>
           Status_root_source(status) = LastOf(yielded)

C9_Witness ==
    /\ last.op = "root_source"
    /\ ~internal.some
    /\ status.source.tag = "Public"
    /\ last.ret.some
    /\ last.ret.val # status.source.err

Error_any_source(e) ==
    IF e.type = "Status" THEN Source_any(e.source) ELSE Error_source(e)

\* Every cause at every nesting level below an optional cause, public or
\* private, from the outermost to the deepest.
RECURSIVE FullCauses(_)
FullCauses(cause) ==
    IF ~cause.some THEN <<>>
    ELSE <<cause.val>> \o FullCauses(Error_any_source(cause.val))

\* C11: the chain of the internal view is the full (public and private)
\* chain: an exhausted InternalStatus::sources() yielded every cause at
\* every nesting level, also a cause a nested Status holds as Private.
C11_InternalChainIsFull ==
    (chain.some /\ internal.some /\ calls >= 1) =>
        yielded = FullCauses(Source_any(internal.val.status.source))

\* The keys of the entries of an ordered map, in order.
KeysOf(data) == [i \in 1..Len(data) |-> data[i].key]

\* The entries of `data` whose key is not a key of `base`, in order.
RECURSIVE NewEntries(_, _)
NewEntries(data, base) ==
    IF data = <<>> THEN <<>>
    ELSE (IF Head(data).key \in Range(KeysOf(base)) THEN <<>> ELSE <<Head(data)>>)
         \o NewEntries(Tail(data), base)

\* The context was written by the closure f through context_with or DerefMut.
ContextWrittenBy(fn) ==
    /\ last.op \in {"context_with", "deref_mut"}
    /\ status.data.type = "AdhocContext"
    /\ last.arg.fn = fn

\* C12: AdhocContext::insert keeps keys unique and ordered.  Inserting an
\* existing key leaves the length and the position of every key unchanged
\* and changes the value of that key only; inserting a new key appends the
\* entry last.  So keys stay unique in every context reached.
C12_InsertKeepsOrder ==
    /\ status.data.type = "AdhocContext" =>
           \A i, j \in 1..Len(status.data.data) :
               status.data.data[i].key = status.data.data[j].key => i = j
    /\ ContextWrittenBy("insert") =>
           LET old == last.before.data
               new == status.data.data
               k == last.arg.key
               v == last.arg.value
           IN IF k \in Range(KeysOf(old))
              THEN /\ KeysOf(new) = KeysOf(old)
                   /\ \A i \in 1..Len(old) :
                          new[i].value = (IF old[i].key = k THEN v ELSE old[i].value)
              ELSE new = Append(old, [key |-> k, value |-> v])

C12_Witness ==
    /\ ContextWrittenBy("insert")
    /\ Len(last.before.data) = 2
    /\ last.arg.key = last.before.data[1].key
    /\ last.arg.value # last.before.data[1].value
    /\ status.data.data[1] = [key |-> last.arg.key, value |-> last.arg.value]

\* C13: AdhocContext::update is cumulative.  base.update(r) holds the keys
\* of base and of r; the keys of base keep their position and take r's value
\* when r has the key; the keys only in r follow in r's order; the result is
\* empty iff both were empty; Display writes one "key: value" line per
\* entry, in order.
C13_UpdateIsCumulative ==
    ContextWrittenBy("update") =>
        LET base == last.before.data
            r == last.arg.arg.data
            res == status.data.data
            out == Context_fmt(status.data)
        IN /\ Range(KeysOf(res)) = Range(KeysOf(base)) \cup Range(KeysOf(r))
           /\ Len(res) = Cardinality(Range(KeysOf(base)) \cup Range(KeysOf(r)))
           /\ SubSeq(KeysOf(res), 1, Len(base)) = KeysOf(base)
           /\ \A i \in 1..Len(base) :
                  IF base[i].key \in Range(KeysOf(r))
                  THEN \E j \in 1..Len(r) :
                           r[j].key = base[i].key /\ res[i].value = r[j].value
                  ELSE res[i].value = base[i].value
           /\ SubSeq(res, Len(base) + 1, Len(res)) = NewEntries(r, base)
           /\ is_empty(status.data) <=> (is_empty(last.before) /\ is_empty(last.arg.arg))
           /\ Len(out) = 4 * Len(res)
           /\ \A i \in 1..Len(res) :
                  SubSeq(out, 4 * i - 3, 4 * i) = <<res[i].key, ": ", res[i].value, NL>>

C13_Witness ==
    /\ ContextWrittenBy("update")
    /\ Len(last.before.data) = 1
    /\ Len(last.arg.arg.data) = 2
    /\ last.before.data[1].key = last.arg.arg.data[2].key
    /\ last.before.data[1].value # last.arg.arg.data[2].value
    /\ Len(status.data.data) = 2

\* One "Caused by" block per cause: a blank line, then "Caused by: " and the
\* cause's Display as a line.
RECURSIVE CausedByBlocks(_)
CausedByBlocks(causes) ==
    IF causes = <<>> THEN <<>>
    ELSE <<NL, "Caused by: ">> \o Error_fmt(Head(causes)) \o <<NL>>
         \o CausedByBlocks(Tail(causes))

\* The number of "Caused by" blocks of a text.
CausedByCount(text) == Cardinality({i \in 1..Len(text) : text[i] = "Caused by: "})

\* C14: the Debug output of the terminating wrapper is the wrapped error's
\* Display line and then one block (blank line, "Caused by: " plus the
\* cause's Display) per error along the source() links of the wrapped
\* error, in order, and nothing more: exactly one block for
\* outer.with_source(inner) with an inner Status without a public cause,
\* none for a Status whose only cause is private.
C14_TermDebugListsChain ==
    last.op = "term_debug" =>
        LET error == IF internal.some THEN internal.val ELSE status
            causes == Causes(Error_source(error))
        IN /\ last.ret = Error_fmt(error) \o <<NL>> \o CausedByBlocks(causes)
           /\ CausedByCount(last.ret) = Len(causes)
           /\ (~internal.some /\ status.source.tag \in {"Private", "Empty"})
                  => CausedByCount(last.ret) = 0
           /\ (~internal.some /\ status.source.tag = "Public"
                 /\ status.source.err.type = "Status"
                 /\ status.source.err.source.tag # "Public")
                  => /\ CausedByCount(last.ret) = 1
                     /\ last.ret = Status_fmt(status)
                            \o <<NL, NL, "Caused by: ">>
                            \o Status_fmt(status.source.err) \o <<NL>>

C14_Witness ==
    /\ last.op = "term_debug"
    /\ ~internal.some
    /\ status.source.tag = "Public"
    /\ status.source.err.type = "Status"
    /\ status.source.err.source.tag = "Private"
    /\ CausedByCount(last.ret) = 1

\* C15: the Source state machine.  The Source of a new Status is Empty; the
\* only steps that change it are with_source(e'), to Public(e'), and
\* with_internal(e'), to Private(e'), from any state; every other operation
\* leaves it as it is, the internal view holds the same Source, and the
\* Source of a Status that has a cause never is Empty again.
C15_SourceStateMachine ==
    /\ status.source = Empty
    /\ [][ /\ last'.op = "new" => status'.source = Empty
           /\ last'.op = "with_source" => status'.source = Public(last'.arg)
           /\ last'.op = "with_internal" => status'.source = Private(last'.arg)
           /\ last'.op \notin {"new", "with_source", "with_internal"}
                  => status'.source = status.source
           /\ (last'.op # "new" /\ status.source # Empty) => status'.source # Empty
           /\ internal'.some => internal'.val.status.source = status'.source
         ]_vars

C15_Witness ==
    /\ last.op = "context_with"
    /\ status.source.tag = "Private"
    /\ status.data # last.before

\* C16: with_source and with_internal change the Source slot only.  Every
\* step but new leaves the kind as it is, new sets it to the kind it is
\* given and kind() returns it; a with_source / with_internal step leaves
\* the Context exactly as it was.
C16_AttachChangesSourceOnly ==
    [][ /\ last'.op = "new" => Status_kind(status') = Into(last'.arg)
        /\ last'.op # "new" => Status_kind(status') = Status_kind(status)
        /\ last'.op = "kind" => (last'.ret = Status_kind(status) /\ status' = status)
        /\ last'.op \in {"with_source", "with_internal"} =>
               /\ Status_context(status') = Status_context(status)
               /\ status' = [status EXCEPT !.source = status'.source]
      ]_vars

C16_Witness ==
    /\ last.op = "with_source"
    /\ status.data.type = "AdhocContext"
    /\ Len(status.data.data) = 2
    /\ status.kind.type = "ErrorKind"

C18_ResultContextWith ==
    [][ last'.op = "result_context_with" =>
          IF last'.on = "Ok"
          THEN /\ last'.ret = Ok(last'.value)
               /\ status' = status
          ELSE /\ last'.ret = Err(status')
               /\ Status_kind(status') = Status_kind(status)
               /\ status'.source = status.source
               /\ Status_context(status') = Apply(last'.arg, Status_context(status))
               /\ last'.before = Status_context(status)
      ]_vars

C18_Witness ==
    /\ last.op = "result_context_with"
    /\ last.on = "Err"
    /\ last.arg.fn = "insert"
    /\ status.data # last.before
    /\ status.source.tag = "Private"
    /\ last.ret = Err(status)

====
